---- MODULE Spec2Model ----
(***************************************************************************)
(* Localization scripts of RPG-Scribe: the Key-Set Differ                  *)
(* (extract_keys.py), the Value Extractor (fetch_en_values.py) and the     *)
(* Tree Patcher (update_pl_ui.py), with the kernel they share: flattening  *)
(* a JSON tree to dotted keys and dotted-path get / set.                   *)
(*                                                                         *)
(* A key or dotted key is a sequence of one-character strings, so that     *)
(* splitting on "." and joining with "." are computed, not assumed.        *)
(* A JSON value is a record [tag, s, items]: a string ("str", s = its text, *)
(* a sequence of pieces), an object ("dict", items = the sequence of its   *)
(* [k, v] pairs in order), or any other JSON value ("other": number, list, *)
(* boolean, null).                                                         *)
(***************************************************************************)
EXTENDS Integers, Sequences, FiniteSets, TLC

------------------------------------------------------------------------------
(* JSON values *)

Str(s) == [tag |-> "str", s |-> s, items |-> <<>>]

Other == [tag |-> "other", s |-> <<>>, items |-> <<>>]

Dict(items) == [tag |-> "dict", s |-> <<>>, items |-> items]

\* Python's None, the "not found" result of get_value_from_nested_dict
None == [tag |-> "none", s |-> <<>>, items |-> <<>>]

OrderedDict == Dict(<<>>)

isinstance_dict(x) == x.tag = "dict"

isinstance_str(x) == x.tag = "str"

\* k in d, d a dict
Has(d, k) == \E j \in 1..Len(d.items) : d.items[j].k = k

\* d[k], d a dict holding k
Item(d, k) == d.items[CHOOSE j \in 1..Len(d.items) : d.items[j].k = k].v

\* d[k] = v on an insertion-ordered dict: an existing key keeps its position,
\* a new key goes last
Assign(d, k, v) ==
  IF Has(d, k)
  THEN Dict([j \in 1..Len(d.items) |->
               IF d.items[j].k = k THEN [k |-> k, v |-> v] ELSE d.items[j]])
  ELSE Dict(Append(d.items, [k |-> k, v |-> v]))

------------------------------------------------------------------------------
(* Strings *)

\* key_string.split('.')
RECURSIVE Split(_)
Split(s) ==
  IF \A j \in 1..Len(s) : s[j] # "."
  THEN <<s>>
  ELSE LET j == CHOOSE n \in 1..Len(s) :
                  s[n] = "." /\ \A m \in 1..(n - 1) : s[m] # "."
       IN <<SubSeq(s, 1, j - 1)>> \o Split(SubSeq(s, j + 1, Len(s)))

\* f"{prefix}.{key}" if prefix else key
CurrentKey(prefix, key) ==
  IF prefix # <<>> THEN prefix \o <<".">> \o key ELSE key

------------------------------------------------------------------------------
(* The kernel *)

\* extract_keys_recursive(data, prefix): the dotted keys of the string leaves,
\* in iteration order; the loop over data.items() is FlattenItems
RECURSIVE extract_keys_recursive(_, _), FlattenItems(_, _)
extract_keys_recursive(data, prefix) ==
  IF isinstance_dict(data) THEN FlattenItems(data.items, prefix) ELSE <<>>

FlattenItems(items, prefix) ==
  IF items = <<>> THEN <<>>
  ELSE LET key == Head(items).k
           val == Head(items).v
           current_key == CurrentKey(prefix, key)
           here == IF isinstance_dict(val)
                   THEN extract_keys_recursive(val, current_key)
                   ELSE IF isinstance_str(val) THEN <<current_key>> ELSE <<>>
       IN here \o FlattenItems(Tail(items), prefix)

\* the loop of get_value_from_nested_dict over the segments
RECURSIVE GetWalk(_, _)
GetWalk(current_val, keys) ==
  IF keys = <<>>
  THEN IF isinstance_str(current_val) THEN current_val ELSE None
  ELSE IF isinstance_dict(current_val) /\ Has(current_val, Head(keys))
       THEN GetWalk(Item(current_val, Head(keys)), Tail(keys))
       ELSE None

get_value_from_nested_dict(data_dict, key_string) ==
  GetWalk(data_dict, Split(key_string))

\* set_nested_value with the test on the intermediate segment dropped: every
\* intermediate segment is overwritten with a fresh OrderedDict
RECURSIVE SetWalk_fresh(_, _, _)
SetWalk_fresh(current_level, keys, value) ==
  IF Len(keys) = 1
  THEN Assign(current_level, Head(keys), Str(value))
  ELSE Assign(current_level, Head(keys),
              SetWalk_fresh(OrderedDict, Tail(keys), value))

\* the loop of set_nested_value over the segments, current_level a dict
RECURSIVE SetWalk(_, _, _)
SetWalk(current_level, keys, value) ==
  LET k == Head(keys) IN
  IF Len(keys) = 1
  THEN Assign(current_level, k, Str(value))
  ELSE IF ~Has(current_level, k) \/ ~isinstance_dict(Item(current_level, k))
       THEN Assign(current_level, k, SetWalk(OrderedDict, Tail(keys), value))
       ELSE Assign(current_level, k,
                   SetWalk(Item(current_level, k), Tail(keys), value))

\* set_nested_value without the split: the dotted key used as one key
set_nested_value_nosplit(data_dict, key_string, value) ==
  Assign(data_dict, key_string, Str(value))

\* set_nested_value(data_dict, key_string, value), as the tree it leaves in
\* data_dict (the code mutates in place); data_dict is a dict
set_nested_value(data_dict, key_string, value) ==
  SetWalk(data_dict, Split(key_string), value)

------------------------------------------------------------------------------
(* JSON documents and files *)

\* The objects a JSON text can spell with exactly n members in all, keys
\* from K, leaves from L, as the sequence of the root's pairs.  A text may
\* repeat a key.
RECURSIVE PairsOfSize(_, _, _)
PairsOfSize(n, K, L) ==
  IF n = 0 THEN {<<>>}
  ELSE UNION {
         { <<[k |-> k, v |-> v]>> \o rest :
             k \in K,
             v \in (IF m = 1 THEN L ELSE {})
                     \cup {Dict(it) : it \in PairsOfSize(m - 1, K, L)},
             rest \in PairsOfSize(n - m, K, L) } : m \in 1..n }

DocsUpTo(n, K, L) ==
  UNION { {Dict(it) : it \in PairsOfSize(j, K, L)} : j \in 0..n }

\* json.loads(content) and json.loads(content, object_pairs_hook=OrderedDict):
\* the pairs of an object are inserted in order, so a repeated key keeps its
\* first position and its last value
RECURSIVE json_loads(_), LoadPairs(_, _)
json_loads(doc) ==
  IF doc.tag = "dict" THEN LoadPairs(OrderedDict, doc.items) ELSE doc

LoadPairs(acc, pairs) ==
  IF pairs = <<>> THEN acc
  ELSE LoadPairs(Assign(acc, Head(pairs).k, json_loads(Head(pairs).v)),
                 Tail(pairs))

\* json.dump(existing_data, f, ...): every dict is written as its pairs in
\* iteration order
RECURSIVE json_dump(_)
json_dump(obj) ==
  IF obj.tag = "dict"
  THEN Dict([j \in 1..Len(obj.items) |->
               [k |-> obj.items[j].k, v |-> json_dump(obj.items[j].v)]])
  ELSE obj

\* What open() / read() / json.loads make of a path
FileNotFound == [kind |-> "FileNotFoundError", doc |-> None]

EmptyFile == [kind |-> "empty", doc |-> None]

Malformed == [kind |-> "JSONDecodeError", doc |-> None]

\* any other exception raised while opening or reading (PermissionError,
\* IsADirectoryError, UnicodeDecodeError)
Unreadable == [kind |-> "Exception", doc |-> None]

JsonFile(doc) == [kind |-> "json", doc |-> doc]

FailureFiles == {FileNotFound, EmptyFile, Malformed, Unreadable}

\* JSON texts whose root is not an object
ScalarDocs == {Str(<<"x">>), Other}

------------------------------------------------------------------------------
(* Bounds *)

\* members of a tree handed to the flattener
MaxFlatEntries == 2

\* members of a tree handed to set / get
MaxAddrEntries == 2

\* characters of a dotted key handed to set / get
MaxKeyLen == 3

Chars == {"a", "b", "."}

RECURSIVE StringsOfLen(_)
StringsOfLen(n) ==
  IF n = 0 THEN {<<>>}
  ELSE {<<c>> \o s : c \in Chars, s \in StringsOfLen(n - 1)}

FlatKeys == {<<>>, <<"a">>, <<"b">>, <<"a", ".", "b">>}

FlatInputs ==
  {json_loads(d) :
     d \in DocsUpTo(MaxFlatEntries, FlatKeys, {Str(<<"x">>), Str(<<"y">>), Other})}
  \cup ScalarDocs

AddrKeys == {<<>>, <<"a">>, <<"b">>}

AddrTrees ==
  {json_loads(d) : d \in DocsUpTo(MaxAddrEntries, AddrKeys, {Str(<<"old">>), Other})}

DottedKeys ==
  UNION {StringsOfLen(n) : n \in 0..MaxKeyLen} \cup {<<"a", ".", "b", ".", "c">>}

Values == {<<"v">>, <<"old">>}

------------------------------------------------------------------------------
(* State *)

VARIABLES
  pc,               \* position of the running script or kernel call
  file,             \* what the path the script opens holds
  exit,             \* "running", "0", "1" (sys.exit(1)) or "traceback"
  stdout, stderr,   \* what the run has printed, line by line
  i,                \* iterations of the script's loop done so far
  run,              \* invocations of the script so far
  data, keys, found,                  \* extract_keys_recursive, then get
  data_dict, key_string, value, ret,  \* set_nested_value, then get
  existing_data, new_translations,    \* update_pl_ui.py
  ui_en_data, target_keys, results,   \* fetch_en_values.py (results: both)
  en_keys, pl_keys                    \* extract_keys.py

procVars == <<file, exit, stdout, stderr, i, run>>

flatVars == <<data, keys, found>>

addrVars == <<data_dict, key_string, value, ret>>

patcherVars == <<existing_data, new_translations>>

extractorVars == <<ui_en_data, target_keys>>

differVars == <<en_keys, pl_keys>>

vars == <<pc, procVars, flatVars, addrVars, patcherVars, extractorVars,
          results, differVars>>

ProcIdle ==
  /\ file = FileNotFound /\ exit = "running"
  /\ stdout = <<>> /\ stderr = <<>> /\ i = 0 /\ run = 1

FlatIdle == data = None /\ keys = <<>> /\ found = <<>>

AddrIdle == data_dict = None /\ key_string = <<>> /\ value = <<>> /\ ret = None

PatcherIdle == existing_data = None /\ new_translations = <<>>

ExtractorIdle == ui_en_data = None /\ target_keys = <<>>

DifferIdle == en_keys = {} /\ pl_keys = {}

------------------------------------------------------------------------------
(* The flattener applied to a tree, and get applied to what it emits *)

InitFlat ==
  /\ pc = "flatten"
  /\ data \in FlatInputs
  /\ keys = <<>>
  /\ found = <<>>
  /\ ProcIdle /\ AddrIdle /\ PatcherIdle /\ ExtractorIdle /\ DifferIdle
  /\ results = <<>>

CallFlatten ==
  /\ pc = "flatten"
  /\ keys' = extract_keys_recursive(data, <<>>)
  /\ pc' = "flattened"
  /\ UNCHANGED <<data, found,
               procVars, addrVars, patcherVars,
               extractorVars, results, differVars>>

CallGetEmitted ==
  /\ pc = "flattened"
  /\ found' = [j \in 1..Len(keys) |-> get_value_from_nested_dict(data, keys[j])]
  /\ pc' = "looked_up"
  /\ UNCHANGED <<data, keys,
               procVars, addrVars, patcherVars,
               extractorVars, results, differVars>>

NextFlat == CallFlatten \/ CallGetEmitted

SpecFlat == InitFlat /\ [][NextFlat]_vars

------------------------------------------------------------------------------
(* set then get on a tree *)

InitAddr ==
  /\ pc = "set"
  /\ data_dict \in AddrTrees
  /\ key_string \in DottedKeys
  /\ value \in Values
  /\ ret = None
  /\ ProcIdle /\ FlatIdle /\ PatcherIdle /\ ExtractorIdle /\ DifferIdle
  /\ results = <<>>

CallSet ==
  /\ pc = "set"
  /\ data_dict' = set_nested_value(data_dict, key_string, value)
  /\ pc' = "get"
  /\ UNCHANGED <<key_string, value, ret,
               procVars, flatVars, patcherVars,
               extractorVars, results, differVars>>

CallGet ==
  /\ pc = "get"
  /\ ret' = get_value_from_nested_dict(data_dict, key_string)
  /\ pc' = "got"
  /\ UNCHANGED <<data_dict, key_string, value,
               procVars, flatVars, patcherVars,
               extractorVars, results, differVars>>

NextAddr == CallSet \/ CallGet

SpecAddr == InitAddr /\ [][NextAddr]_vars

------------------------------------------------------------------------------
(* Reading a tree by paths: a path is the sequence of mapping keys from the
   root.  These state what the claims speak of; no script calls them. *)

\* the string leaves of a tree, in iteration order, as [path, s]
RECURSIVE LeavesUnder(_, _)
LeavesUnder(items, path) ==
  IF items = <<>> THEN <<>>
  ELSE LET p == Append(path, Head(items).k)
           v == Head(items).v
           here == IF v.tag = "dict" THEN LeavesUnder(v.items, p)
                   ELSE IF v.tag = "str" THEN <<[path |-> p, s |-> v.s]>>
                   ELSE <<>>
       IN here \o LeavesUnder(Tail(items), path)

StringLeaves(tree) ==
  IF tree.tag = "dict" THEN LeavesUnder(tree.items, <<>>) ELSE <<>>

\* ".".join(path), path not empty
RECURSIVE JoinDots(_)
JoinDots(path) ==
  IF Len(path) = 1 THEN path[1]
  ELSE path[1] \o <<".">> \o JoinDots(Tail(path))

------------------------------------------------------------------------------
(* Claims on the flattener *)

\* C7: extract_keys_recursive(T) emits exactly one dotted key per string leaf
\* of T, the mapping keys on the path from the root to that leaf joined by
\* ".", and nothing else (mappings and other values emit nothing, a root that
\* is no mapping yields no keys).
C7_FlattenIsJoinedLeafPaths ==
  pc # "flatten" =>
    keys = [j \in 1..Len(StringLeaves(data)) |->
              JoinDots(StringLeaves(data)[j].path)]

\* C2: every dotted key emitted by extract_keys_recursive(T) is found by
\* get_value_from_nested_dict(T, _) as a string, the value of the very leaf
\* it was emitted from, whatever the mapping keys are.
C2_EmittedKeysAreGettable ==
  pc = "looked_up" =>
    /\ Len(found) = Len(StringLeaves(data))
    /\ \A j \in 1..Len(found) : found[j] = Str(StringLeaves(data)[j].s)

------------------------------------------------------------------------------
(* Claims on set / get *)

\* C1: after set_nested_value(T, k, v), get_value_from_nested_dict(T, k)
\* returns exactly v, for every tree T, dotted key k and string v.
C1_SetThenGet == pc = "got" => ret = Str(value)

\* C1 witness: a dotted key of several segments was set into a tree that
\* held other entries, and read back
C1_Witness ==
  /\ pc = "got"
  /\ Len(Split(key_string)) >= 2
  /\ Len(data_dict.items) >= 2
  /\ ret = Str(value)

\* the members of a dict other than k, in order
Siblings(d, k) ==
  LET NotK(it) == it.k # k IN SelectSeq(d.items, NotK)

\* What one call of set_nested_value makes of a level: before is the mapping
\* found (or the fresh empty one put) at this level, after the mapping the
\* level holds when the call returns, segs the segments still to walk.
RECURSIVE SetPolicy(_, _, _, _)
SetPolicy(before, after, segs, v) ==
  LET k == Head(segs) IN
  /\ after.tag = "dict"
  /\ Has(after, k)
  /\ Siblings(after, k) = Siblings(before, k)
  /\ IF Len(segs) = 1
     THEN Item(after, k) = Str(v)
     ELSE IF Has(before, k) /\ Item(before, k).tag = "dict"
          THEN SetPolicy(Item(before, k), Item(after, k), Tail(segs), v)
          ELSE SetPolicy(Dict(<<>>), Item(after, k), Tail(segs), v)

\* C9: set_nested_value(T, k, v) descends into every non-final segment that
\* is a mapping and keeps its other entries, replaces an absent or non-mapping
\* one by a fresh empty mapping, and assigns v to the final segment over any
\* prior leaf or sub-tree; a.b.c = v on the empty tree gives {a: {b: {c: v}}}.
C9_IntermediatePolicy ==
  [][pc = "set" =>
       /\ SetPolicy(data_dict, data_dict', Split(key_string), value)
       /\ (data_dict = Dict(<<>>) /\ key_string = <<"a", ".", "b", ".", "c">>) =>
            data_dict' =
              Dict(<<[k |-> <<"a">>, v |->
                Dict(<<[k |-> <<"b">>, v |->
                  Dict(<<[k |-> <<"c">>, v |-> Str(value)]>>)]>>)]>>)]_vars

\* C9 witness: a.b was set into a tree whose a held a string beside a sibling:
\* a is now a mapping holding only b
C9_Witness ==
  /\ pc = "get"
  /\ key_string = <<"a", ".", "b">>
  /\ Len(data_dict.items) = 2
  /\ data_dict.items[1] = [k |-> <<"b">>, v |-> Str(<<"old">>)]
  /\ data_dict.items[2] =
       [k |-> <<"a">>, v |-> Dict(<<[k |-> <<"b">>, v |-> Str(value)]>>)]

------------------------------------------------------------------------------
(* The Tree Patcher: update_pl_ui.py *)

\* entries of new_translations
MaxPatches == 3

\* members of the JSON object in the target file
MaxPatchEntries == 2

\* invocations of the script on the same target file
MaxRuns == 2

PatchKeys ==
  { <<"a">>, <<"b">>, <<"a", ".", "a">>, <<"a", ".", "b">>,
    <<"b", ".", "a", ".", "b">> }

\* the translation the dict literal gives a key
Translation(key) == <<"pl:">> \o key

\* a dict literal of n entries: distinct keys, in the order written
RECURSIVE PatchListsOfLen(_)
PatchListsOfLen(n) ==
  IF n = 0 THEN {<<>>}
  ELSE {Append(l, [key |-> k, value |-> Translation(k)]) :
          l \in PatchListsOfLen(n - 1), k \in PatchKeys} \
       {l \in {Append(m, [key |-> k, value |-> Translation(k)]) :
                 m \in PatchListsOfLen(n - 1), k \in PatchKeys} :
          \E a \in 1..(n - 1) : l[a].key = l[n].key}

PatchLists == UNION {PatchListsOfLen(n) : n \in 1..MaxPatches}

PatcherFiles ==
  FailureFiles
  \cup {JsonFile(d) :
          d \in DocsUpTo(MaxPatchEntries, {<<"a">>, <<"b">>}, {Str(<<"old">>)})
                  \cup ScalarDocs}

\* what the read block leaves in existing_data when it does not raise
Loaded(f) == IF f.kind = "json" THEN json_loads(f.doc) ELSE OrderedDict

ReadDiagnostic(f) ==
  IF f.kind = "FileNotFoundError" THEN <<"Info: File not found">>
  ELSE IF f.kind = "empty" THEN <<"Info: File was empty">>
  ELSE IF f.kind = "JSONDecodeError" THEN <<"Error: Could not decode JSON">>
  ELSE <<>>

InitPatcher ==
  /\ pc = "read"
  /\ file \in PatcherFiles
  /\ new_translations \in PatchLists
  /\ existing_data = OrderedDict
  /\ exit = "running" /\ stdout = <<>> /\ stderr = <<>> /\ i = 0 /\ run = 1
  /\ FlatIdle /\ AddrIdle /\ ExtractorIdle /\ DifferIdle
  /\ results = <<>>

\* the try block that reads the target file: FileNotFoundError and
\* JSONDecodeError are caught, nothing else is
PatcherRead ==
  /\ pc = "read"
  /\ IF file.kind = "Exception"
     THEN /\ pc' = "exited"
          /\ exit' = "traceback"
          /\ stderr' = Append(stderr, "Traceback")
          /\ UNCHANGED existing_data
     ELSE /\ pc' = "merge"
          /\ existing_data' = Loaded(file)
          /\ stderr' = stderr \o ReadDiagnostic(file)
          /\ UNCHANGED exit
  /\ UNCHANGED <<file, stdout, i, run, new_translations,
                 flatVars, addrVars, extractorVars, results, differVars>>

\* one iteration of "for key, value in new_translations.items()"; on a root
\* that is no dict set_nested_value raises TypeError, which nothing catches
PatcherMerge ==
  /\ pc = "merge"
  /\ i < Len(new_translations)
  /\ IF isinstance_dict(existing_data)
     THEN /\ existing_data' =
               set_nested_value(existing_data, new_translations[i + 1].key,
                                new_translations[i + 1].value)
          /\ i' = i + 1
          /\ UNCHANGED <<pc, exit, stderr>>
     ELSE /\ pc' = "exited"
          /\ exit' = "traceback"
          /\ stderr' = Append(stderr, "Traceback")
          /\ UNCHANGED <<existing_data, i>>
  /\ UNCHANGED <<file, stdout, run, new_translations,
                 flatVars, addrVars, extractorVars, results, differVars>>

\* the write with the file opened in mode 'a': the dump follows what the
\* file held
PatcherWrite_append ==
  /\ pc = "merge"
  /\ i = Len(new_translations)
  /\ file' = IF file.kind \in {"FileNotFoundError", "empty"}
             THEN JsonFile(json_dump(existing_data))
             ELSE Malformed
  /\ stdout' = Append(stdout, "Successfully updated")
  /\ exit' = "0"
  /\ pc' = "exited"
  /\ UNCHANGED <<stderr, i, run, patcherVars,
                 flatVars, addrVars, extractorVars, results, differVars>>

\* open(target_file_path, 'w') and json.dump succeed
PatcherWrite ==
  /\ pc = "merge"
  /\ i = Len(new_translations)
  /\ file' = JsonFile(json_dump(existing_data))
  /\ stdout' = Append(stdout, "Successfully updated")
  /\ exit' = "0"
  /\ pc' = "exited"
  /\ UNCHANGED <<stderr, i, run, patcherVars,
                 flatVars, addrVars, extractorVars, results, differVars>>

\* open or json.dump raises IOError: the file is as it was (open failed) or
\* cut short (open truncated it, the write failed); sys.exit(1)
PatcherWriteFails ==
  /\ pc = "merge"
  /\ i = Len(new_translations)
  /\ file' \in {file, EmptyFile, Malformed}
  /\ stderr' = Append(stderr, "Error: Could not write to file")
  /\ exit' = "1"
  /\ pc' = "exited"
  /\ UNCHANGED <<stdout, i, run, patcherVars,
                 flatVars, addrVars, extractorVars, results, differVars>>

\* the script is run again on the file it has written
PatcherRerun ==
  /\ pc = "exited"
  /\ exit = "0"
  /\ run < MaxRuns
  /\ run' = run + 1
  /\ pc' = "read"
  /\ existing_data' = OrderedDict
  /\ exit' = "running" /\ stdout' = <<>> /\ stderr' = <<>> /\ i' = 0
  /\ UNCHANGED <<file, new_translations,
                 flatVars, addrVars, extractorVars, results, differVars>>

NextPatcher ==
  \/ PatcherRead
  \/ PatcherMerge
  \/ PatcherWrite
  \/ PatcherWriteFails
  \/ PatcherRerun

SpecPatcher == InitPatcher /\ [][NextPatcher]_vars

------------------------------------------------------------------------------
(* Claims on the Patcher.  While pc = "merge" the file still holds what the
   run read, so Loaded(file) is the tree the patches started from. *)

IsPrefix(p, q) == Len(p) <= Len(q) /\ SubSeq(q, 1, Len(p)) = p

\* the paths of all members of a tree
RECURSIVE PathsUnder(_, _)
PathsUnder(items, path) ==
  IF items = <<>> THEN {}
  ELSE LET p == Append(path, Head(items).k)
           v == Head(items).v
       IN {p} \cup (IF v.tag = "dict" THEN PathsUnder(v.items, p) ELSE {})
              \cup PathsUnder(Tail(items), path)

Paths(tree) == IF tree.tag = "dict" THEN PathsUnder(tree.items, <<>>) ELSE {}

\* the value at a path of the tree
RECURSIVE At(_, _)
At(tree, path) ==
  IF path = <<>> THEN tree ELSE At(Item(tree, Head(path)), Tail(path))

\* the levels of a tree: the paths of its mappings, the root included
DictPaths(tree) ==
  IF tree.tag = "dict"
  THEN {<<>>} \cup {q \in Paths(tree) : At(tree, q).tag = "dict"}
  ELSE {}

KeysAt(tree, p) ==
  [j \in 1..Len(At(tree, p).items) |-> At(tree, p).items[j].k]

\* the segment lists of the patches applied so far
Applied == {Split(new_translations[j].key) : j \in 1..i}

OnPatchedPath(q) == \E sg \in Applied : IsPrefix(q, sg) \/ IsPrefix(sg, q)

\* the patch that first created key k at level p
FirstCreator(p, k) ==
  CHOOSE j \in 1..i :
    /\ IsPrefix(Append(p, k), Split(new_translations[j].key))
    /\ \A m \in 1..(j - 1) :
         ~IsPrefix(Append(p, k), Split(new_translations[m].key))

\* every member off the patched paths is still there with its value
Frame(T0, T) ==
  \A q \in Paths(T0) :
    ~OnPatchedPath(q) => q \in Paths(T) /\ At(T, q) = At(T0, q)

\* at level p of T: the keys T0 had there keep their relative order, the
\* keys it had not come after them, in the order the patches created them
LevelOrder(T0, T, p) ==
  LET old == IF p \in DictPaths(T0) THEN KeysAt(T0, p) ELSE <<>>
      new == KeysAt(T, p)
      IsOld(k) == \E j \in 1..Len(old) : old[j] = k
      IsKept(k) == \E j \in 1..Len(new) : new[j] = k
  IN /\ SelectSeq(new, IsOld) = SelectSeq(old, IsKept)
     /\ \A a, b \in 1..Len(new) :
          a < b /\ IsOld(new[b]) => IsOld(new[a])
     /\ \A a, b \in 1..Len(new) :
          (a < b /\ ~IsOld(new[a]) /\ ~IsOld(new[b])) =>
            FirstCreator(p, new[a]) < FirstCreator(p, new[b])

\* C6 as claimed: after any sequence of patches every pre-existing entry off
\* the patched paths is still present with its value, and at every level the
\* pre-existing keys keep their relative order with the new keys after them
\* in the order the patches first created them.
C6_FrameAndOrderEveryLevel ==
  (pc = "merge" /\ isinstance_dict(existing_data)) =>
    /\ Frame(Loaded(file), existing_data)
    /\ \A p \in DictPaths(existing_data) :
         LevelOrder(Loaded(file), existing_data, p)

\* C6 amended: the same, the ordering at every level that is not at or below
\* a patched key (a mapping a patch assigns over is gone; one built later in
\* its place has its keys in the order they were set).
C6_FrameAndOrderUnpatchedLevels ==
  (pc = "merge" /\ isinstance_dict(existing_data)) =>
    /\ Frame(Loaded(file), existing_data)
    /\ \A p \in DictPaths(existing_data) :
         (\A sg \in Applied : ~IsPrefix(sg, p)) =>
           LevelOrder(Loaded(file), existing_data, p)

\* C6 witness: all patches applied to a tree that keeps a member off the
\* patched paths, at a level that held a key before and has gained one
C6_Witness ==
  /\ pc = "merge"
  /\ i = Len(new_translations)
  /\ i >= 2
  /\ isinstance_dict(existing_data)
  /\ \E q \in Paths(Loaded(file)) : ~OnPatchedPath(q)
  /\ \E p \in DictPaths(Loaded(file)) \cap DictPaths(existing_data) :
       /\ \A sg \in Applied : ~IsPrefix(sg, p)
       /\ Len(KeysAt(Loaded(file), p)) >= 1
       /\ Len(KeysAt(existing_data, p)) > Len(KeysAt(Loaded(file), p))

\* a tree without the order of its keys
RECURSIVE Content(_)
Content(t) ==
  IF t.tag = "dict"
  THEN [tag |-> "dict", s |-> <<>>,
        items |-> {<<t.items[j].k, Content(t.items[j].v)>> :
                     j \in 1..Len(t.items)}]
  ELSE [tag |-> t.tag, s |-> t.s, items |-> {}]

\* all the patches applied in the order of the list
RECURSIVE MergeAll(_, _)
MergeAll(tree, patches) ==
  IF patches = <<>> THEN tree
  ELSE MergeAll(set_nested_value(tree, Head(patches).key, Head(patches).value),
                Tail(patches))

Orders(patches) ==
  {[j \in 1..Len(patches) |-> patches[f[j]]] :
     f \in Permutations(1..Len(patches))}

Independent(patches) ==
  \A a, b \in 1..Len(patches) :
    a # b => ~IsPrefix(Split(patches[a].key), Split(patches[b].key))

\* C8: for patch entries whose dotted keys are pairwise independent, applying
\* them in any order yields the same tree content.
C8_OrderOfPatchesIrrelevant ==
  (/\ pc = "merge"
   /\ i = Len(new_translations)
   /\ isinstance_dict(existing_data)
   /\ Independent(new_translations)) =>
    \A o \in Orders(new_translations) :
      Content(MergeAll(Loaded(file), o)) = Content(existing_data)

\* C8 witness: independent patches applied to a tree with members, where
\* another order gives the same content with the keys in another order
C8_Witness ==
  /\ pc = "merge"
  /\ i = Len(new_translations)
  /\ i >= 2
  /\ isinstance_dict(existing_data)
  /\ Independent(new_translations)
  /\ Loaded(file) # OrderedDict
  /\ \E o \in Orders(new_translations) :
       /\ MergeAll(Loaded(file), o) # existing_data
       /\ Content(MergeAll(Loaded(file), o)) = Content(existing_data)

\* C10: applying the whole list a second time to the result of the first
\* application leaves the tree unchanged in content and key order: a re-run
\* of the Patcher on its own output is about to rewrite the identical file.
C10_RerunRewritesSameFile ==
  (run >= 2 /\ pc = "merge" /\ i = Len(new_translations)) =>
    file = JsonFile(json_dump(existing_data))

\* C10 witness: a second run has applied a list in which one key is a
\* segment-prefix of another
C10_Witness ==
  /\ run >= 2
  /\ pc = "merge"
  /\ i = Len(new_translations)
  /\ ~Independent(new_translations)
  /\ file = JsonFile(json_dump(existing_data))

\* C3: every read-side error is caught and degraded to an empty tree with a
\* diagnostic and the run goes on; the only run that ends abnormally or with
\* a non-zero status is one whose write failed.
C3_OnlyWriteFailureIsFatal ==
  /\ exit \in {"1", "traceback"} =>
       /\ exit = "1"
       /\ stderr # <<>>
       /\ stderr[Len(stderr)] = "Error: Could not write to file"
  /\ (pc = "merge" /\ i = 0 /\ file.kind # "json") =>
       /\ existing_data = OrderedDict
       /\ stderr # <<>>

------------------------------------------------------------------------------
(* The Value Extractor: fetch_en_values.py *)

\* entries of target_keys
MaxTargets == 2

\* members of the JSON object in the file read
MaxExtractEntries == 2

ExtractKeys == {<<>>, <<"a">>, <<"b">>, <<"a", ".", "b">>}

TargetLists ==
  UNION {[1..n -> ExtractKeys] : n \in 1..MaxTargets}

ExtractorFiles ==
  FailureFiles
  \cup {JsonFile(d) :
          d \in DocsUpTo(MaxExtractEntries, {<<"a">>, <<"b">>},
                         {Str(<<"x">>), Other})
                  \cup ScalarDocs}

\* f"ERROR: Value for key '{key}' not found or not a string."
ErrorText(key) ==
  <<"ERROR: Value for key '">> \o key \o <<"' not found or not a string.">>

\* results[key] = ... on a plain dict
Store(d, key, text) ==
  [k \in (DOMAIN d) \cup {key} |-> IF k = key THEN text ELSE d[k]]

InitExtractor ==
  /\ pc = "read"
  /\ file \in ExtractorFiles
  /\ target_keys \in TargetLists
  /\ ui_en_data = None
  /\ results = <<>>
  /\ exit = "running" /\ stdout = <<>> /\ stderr = <<>> /\ i = 0 /\ run = 1
  /\ FlatIdle /\ AddrIdle /\ PatcherIdle /\ DifferIdle

\* open, read and json.loads; an empty file and every exception print the
\* empty object and return
ExtractorRead ==
  /\ pc = "read"
  /\ IF file.kind = "json"
     THEN /\ ui_en_data' = json_loads(file.doc)
          /\ pc' = "lookup"
          /\ UNCHANGED <<stdout, stderr, exit>>
     ELSE /\ stderr' = Append(stderr, <<"Error", file.kind>>)
          /\ stdout' = Append(stdout, <<>>)
          /\ exit' = "0"
          /\ pc' = "exited"
          /\ UNCHANGED ui_en_data
  /\ UNCHANGED <<file, i, run, target_keys, results,
                 flatVars, addrVars, patcherVars, differVars>>

\* one iteration of "for key in target_keys" where get skips a key it does
\* not find instead of recording the diagnostic
ExtractorLookup_skip ==
  /\ pc = "lookup"
  /\ i < Len(target_keys)
  /\ LET key == target_keys[i + 1]
         val == get_value_from_nested_dict(ui_en_data, key)
     IN IF val # None
        THEN results' = Store(results, key, val.s) /\ UNCHANGED stderr
        ELSE /\ UNCHANGED results
             /\ stderr' = Append(stderr, <<"Warning">> \o key)
  /\ i' = i + 1
  /\ UNCHANGED <<pc, file, exit, stdout, run, extractorVars,
                 flatVars, addrVars, patcherVars, differVars>>

\* one iteration of "for key in target_keys"
ExtractorLookup ==
  /\ pc = "lookup"
  /\ i < Len(target_keys)
  /\ LET key == target_keys[i + 1]
         val == get_value_from_nested_dict(ui_en_data, key)
     IN IF val # None
        THEN results' = Store(results, key, val.s) /\ UNCHANGED stderr
        ELSE /\ results' = Store(results, key, ErrorText(key))
             /\ stderr' = Append(stderr, <<"Warning">> \o key)
  /\ i' = i + 1
  /\ UNCHANGED <<pc, file, exit, stdout, run, extractorVars,
                 flatVars, addrVars, patcherVars, differVars>>

\* print(json.dumps(results, indent=2))
ExtractorPrint ==
  /\ pc = "lookup"
  /\ i = Len(target_keys)
  /\ stdout' = Append(stdout, results)
  /\ exit' = "0"
  /\ pc' = "exited"
  /\ UNCHANGED <<file, stderr, i, run, extractorVars, results,
                 flatVars, addrVars, patcherVars, differVars>>

NextExtractor == ExtractorRead \/ ExtractorLookup \/ ExtractorPrint

SpecExtractor == InitExtractor /\ [][NextExtractor]_vars

Requested == {target_keys[j] : j \in 1..Len(target_keys)}

\* the string leaf at the path a dotted key spells, if there is one
LeafAt(tree, key) ==
  IF Split(key) \in Paths(tree) /\ At(tree, Split(key)).tag = "str"
  THEN At(tree, Split(key)).s
  ELSE ErrorText(key)

\* C4: if the file loads the emitted mapping has exactly one entry for every
\* requested key, the string leaf at that key or else the diagnostic string;
\* if the file fails to load the emitted mapping is empty; no run emits a
\* non-empty strict subset of the requested keys.
C4_ExtractorAllOrNothing ==
  /\ \A j \in 1..Len(stdout) :
       DOMAIN stdout[j] = {} \/ DOMAIN stdout[j] = Requested
  /\ pc = "exited" =>
       /\ Len(stdout) = 1
       /\ IF file.kind = "json"
          THEN /\ DOMAIN stdout[1] = Requested
               /\ \A k \in Requested :
                    stdout[1][k] = LeafAt(json_loads(file.doc), k)
          ELSE stdout[1] = <<>>

\* C4 witness: the file loaded and the output holds one key with its leaf
\* and one key with the diagnostic
C4_Witness ==
  /\ pc = "exited"
  /\ file.kind = "json"
  /\ Len(stdout) = 1
  /\ \E k1, k2 \in DOMAIN stdout[1] :
       stdout[1][k1] = <<"x">> /\ stdout[1][k2] = ErrorText(k2)

------------------------------------------------------------------------------
(* The Key-Set Differ: extract_keys.py.  The diagnostics it prints to stderr
   are not kept: nothing below reads them. *)

\* members of the JSON object in a locale file
MaxDifferEntries == 2

namespaces == <<"common", "entities", "ui">>

DifferFiles ==
  FailureFiles
  \cup {JsonFile(d) :
          d \in DocsUpTo(MaxDifferEntries, {<<"a">>, <<"b">>}, {Str(<<"x">>)})
                  \cup ScalarDocs}

\* get_keys_for_language(lang_code, namespace), f what the path holds: an
\* empty file and every exception give the empty set
get_keys_for_language(f) ==
  IF f.kind = "json"
  THEN LET ks == extract_keys_recursive(json_loads(f.doc), <<>>)
       IN {ks[j] : j \in 1..Len(ks)}
  ELSE {}

\* code point of a character
Ord(c) == CASE c = "." -> 46 [] c = "a" -> 97 [] c = "b" -> 98

\* s < t on Python strings
RECURSIVE Less(_, _)
Less(s, t) ==
  IF t = <<>> THEN FALSE
  ELSE IF s = <<>> THEN TRUE
  ELSE IF s[1] = t[1] THEN Less(Tail(s), Tail(t))
  ELSE Ord(s[1]) < Ord(t[1])

\* sorted(list(S))
RECURSIVE sorted(_)
sorted(S) ==
  IF S = {} THEN <<>>
  ELSE LET m == CHOOSE x \in S : \A y \in S \ {x} : Less(x, y)
       IN <<m>> \o sorted(S \ {m})

\* the missing keys left in whatever order the set iterates (here: descending)
RECURSIVE MissingKeys_unsorted(_, _)
MissingKeys_unsorted(en, pl) ==
  IF en \ pl = {} THEN <<>>
  ELSE LET m == CHOOSE x \in en \ pl : \A y \in (en \ pl) \ {x} : Less(y, x)
       IN <<m>> \o MissingKeys_unsorted(en \ {m}, pl)

\* sorted(list(en_keys - pl_keys))
MissingKeys(en, pl) == sorted(en \ pl)

\* f"missing_pl_{ns}_keys"
KeyName(ns) == <<"missing_pl_", ns, "_keys">>

\* results[name] = val on a plain dict kept as its pairs in insertion order
StoreNamed(d, name, val) ==
  IF \E j \in 1..Len(d) : d[j].name = name
  THEN [j \in 1..Len(d) |->
          IF d[j].name = name THEN [name |-> name, keys |-> val] ELSE d[j]]
  ELSE Append(d, [name |-> name, keys |-> val])

\* no file is open
Closed == [kind |-> "closed", doc |-> None]

InitDiffer ==
  /\ pc = "en_open"
  /\ file = Closed
  /\ en_keys = {} /\ pl_keys = {}
  /\ results = <<>>
  /\ exit = "running" /\ stdout = <<>> /\ stderr = <<>> /\ i = 0 /\ run = 1
  /\ FlatIdle /\ AddrIdle /\ PatcherIdle /\ ExtractorIdle

\* get_keys_for_language("en", ns) opens and reads its path: file is what
\* the path holds
DifferOpenEn ==
  /\ pc = "en_open"
  /\ file' \in DifferFiles
  /\ pc' = "en_keys"
  /\ UNCHANGED <<exit, stdout, stderr, i, run, differVars, results,
                 flatVars, addrVars, patcherVars, extractorVars>>

\* en_keys = what get_keys_for_language("en", ns) returns
DifferKeysEn ==
  /\ pc = "en_keys"
  /\ en_keys' = get_keys_for_language(file)
  /\ file' = Closed
  /\ pc' = "pl_open"
  /\ UNCHANGED <<exit, stdout, stderr, i, run, pl_keys, results,
                 flatVars, addrVars, patcherVars, extractorVars>>

\* get_keys_for_language("pl", ns) opens and reads its path
DifferOpenPl ==
  /\ pc = "pl_open"
  /\ file' \in DifferFiles
  /\ pc' = "pl_keys"
  /\ UNCHANGED <<exit, stdout, stderr, i, run, differVars, results,
                 flatVars, addrVars, patcherVars, extractorVars>>

\* pl_keys = what get_keys_for_language("pl", ns) returns
DifferKeysPl ==
  /\ pc = "pl_keys"
  /\ pl_keys' = get_keys_for_language(file)
  /\ file' = Closed
  /\ pc' = "diff"
  /\ UNCHANGED <<exit, stdout, stderr, i, run, en_keys, results,
                 flatVars, addrVars, patcherVars, extractorVars>>

\* missing_keys = sorted(list(en_keys - pl_keys)), stored under the
\* namespace's name; then the next namespace, or the print loop.  en_keys and
\* pl_keys are not read again before they are assigned: they are dropped here.
DifferDiff ==
  /\ pc = "diff"
  /\ results' = StoreNamed(results, KeyName(namespaces[i + 1]),
                           MissingKeys(en_keys, pl_keys))
  /\ en_keys' = {} /\ pl_keys' = {}
  /\ i' = i + 1
  /\ pc' = IF i + 1 = Len(namespaces) THEN "print" ELSE "en_open"
  /\ UNCHANGED <<file, exit, stdout, stderr, run,
                 flatVars, addrVars, patcherVars, extractorVars>>

\* the print loop: one line per entry of results
DifferPrint ==
  /\ pc = "print"
  /\ stdout' = stdout \o
       [j \in 1..Len(results) |-> <<results[j].name, results[j].keys>>]
  /\ exit' = "0"
  /\ pc' = "exited"
  /\ UNCHANGED <<file, stderr, i, run, differVars, results,
                 flatVars, addrVars, patcherVars, extractorVars>>

NextDiffer ==
  \/ DifferOpenEn
  \/ DifferKeysEn
  \/ DifferOpenPl
  \/ DifferKeysPl
  \/ DifferDiff
  \/ DifferPrint

SpecDiffer == InitDiffer /\ [][NextDiffer]_vars

\* the key set of a side: flatten of its tree, empty if the file did not load
KeySet(f) ==
  IF f.kind = "json"
  THEN LET ks == extract_keys_recursive(json_loads(f.doc), <<>>)
       IN {ks[j] : j \in 1..Len(ks)}
  ELSE {}

Ascending(l) == \A a, b \in 1..Len(l) : a < b => Less(l[a], l[b])

\* the list is S, ascending, each key once
IsSortedListOf(l, S) ==
  /\ {l[j] : j \in 1..Len(l)} = S
  /\ Ascending(l)

\* C5, on a state: the output is one line per namespace, in order, with
\* that namespace's list.
C5_State ==
  /\ Len(results) = i
  /\ pc = "exited" =>
       /\ Len(stdout) = Len(namespaces)
       /\ \A j \in 1..Len(namespaces) :
            stdout[j] = <<KeyName(namespaces[j]), results[j].keys>>

\* C5, on a step: a side gets the key set of the file read for it (empty on
\* a load failure); the namespace reports exactly the reference keys that are
\* no target keys, ascending; what is reported for the namespaces already
\* done does not change, whatever the later files hold
C5_Step ==
  /\ pc = "en_keys" => en_keys' = KeySet(file)
  /\ pc = "pl_keys" => pl_keys' = KeySet(file)
  /\ pc = "diff" =>
       /\ Len(results') = i + 1
       /\ results'[i + 1].name = KeyName(namespaces[i + 1])
       /\ IsSortedListOf(results'[i + 1].keys, en_keys \ pl_keys)
  /\ Len(results') >= Len(results)
  /\ \A j \in 1..Len(results) : results'[j] = results[j]

\* C5: for every namespace exactly one line is emitted, listing exactly the
\* keys of flatten(reference) that are not in flatten(target), ascending and
\* without duplicates, a side that fails to load counting as the empty key
\* set; a load failure in one namespace changes no other namespace's result.
C5_DifferResult == []C5_State /\ [][C5_Step]_vars

\* C5 witness: the last namespace's reference has two keys and its target
\* file is missing; the first namespace reported nothing missing
C5_Witness ==
  /\ pc = "pl_keys"
  /\ i = 2
  /\ file = FileNotFound
  /\ Cardinality(en_keys) = 2
  /\ results[1].keys = <<>>

====
